---- MODULE Spec2Model ----
(***************************************************************************)
(* Model of the dual_num crate (src/src/lib.rs): the DualNumber<T> value   *)
(* type, its comparison and arithmetic operators, the Float methods and    *)
(* the differentiate entry point.                                          *)
(*                                                                         *)
(* The scalar type T is a small floating-point format: finite values are   *)
(* the multiples of 1/Scale of magnitude at most MaxInt, every arithmetic  *)
(* result is rounded towards zero onto that grid, results beyond the range *)
(* overflow to an infinity, and NaN is produced and propagated as IEEE-754 *)
(* does.  A scalar is a record [cls, v]: cls = "Fin" with v the value in   *)
(* units of 1/Scale, cls = "Inf" with v the sign, or cls = "NaN".  The     *)
(* format has a single zero (no negative zero).                            *)
(***************************************************************************)
EXTENDS Integers, Sequences, FiniteSets, TLC

\* ------------------------------------------------------------------------
\* Bounds of the scalar format and of the inputs.
Scale == 4
MaxInt == 128
MaxIn == 8

MaxMag == MaxInt * Scale

\* ------------------------------------------------------------------------
\* The scalar type T (f32 / f64 in the crate's intended instantiations).
NaN == [cls |-> "NaN", v |-> 0]
PInf == [cls |-> "Inf", v |-> 1]
NInf == [cls |-> "Inf", v |-> -1]

Fin(n) ==
    IF n > MaxMag THEN PInf
    ELSE IF n < -MaxMag THEN NInf
    ELSE [cls |-> "Fin", v |-> n]

\* The integer k as a scalar.
N(k) == Fin(k * Scale)

IsNaN(x) == x.cls = "NaN"
IsInf(x) == x.cls = "Inf"
IsFin(x) == x.cls = "Fin"

Abs(n) == IF n < 0 THEN -n ELSE n
Sgn(x) == IF x.v < 0 THEN -1 ELSE 1
SInf(sign) == IF sign < 0 THEN NInf ELSE PInf

\* Integer division rounding towards zero.
TDiv(n, d) ==
    LET q == Abs(n) \div Abs(d)
    IN  IF (n < 0) # (d < 0) THEN -q ELSE q

\* Position of a non-NaN scalar in the order -inf < finite < +inf.
Key(x) == IF IsInf(x) THEN x.v * (MaxMag + 1) ELSE x.v

T_zero == Fin(0)
T_one == Fin(Scale)

T_neg(x) ==
    IF IsNaN(x) THEN NaN
    ELSE IF IsInf(x) THEN SInf(-x.v)
    ELSE Fin(-x.v)

T_add(x, y) ==
    IF IsNaN(x) \/ IsNaN(y) THEN NaN
    ELSE IF IsInf(x) /\ IsInf(y) THEN (IF x.v = y.v THEN x ELSE NaN)
    ELSE IF IsInf(x) THEN x
    ELSE IF IsInf(y) THEN y
    ELSE Fin(x.v + y.v)

T_sub(x, y) == T_add(x, T_neg(y))

T_mul(x, y) ==
    IF IsNaN(x) \/ IsNaN(y) THEN NaN
    ELSE IF IsInf(x) \/ IsInf(y)
         THEN (IF x.v = 0 \/ y.v = 0 THEN NaN ELSE SInf(Sgn(x) * Sgn(y)))
    ELSE Fin(TDiv(x.v * y.v, Scale))

T_div(x, y) ==
    IF IsNaN(x) \/ IsNaN(y) THEN NaN
    ELSE IF IsInf(x) /\ IsInf(y) THEN NaN
    ELSE IF IsInf(x) THEN SInf(Sgn(x) * Sgn(y))
    ELSE IF IsInf(y) THEN Fin(0)
    ELSE IF y.v = 0 THEN (IF x.v = 0 THEN NaN ELSE SInf(Sgn(x)))
    ELSE Fin(TDiv(x.v * Scale, y.v))

T_eq(x, y) == ~IsNaN(x) /\ ~IsNaN(y) /\ Key(x) = Key(y)
T_lt(x, y) == ~IsNaN(x) /\ ~IsNaN(y) /\ Key(x) < Key(y)
T_le(x, y) == ~IsNaN(x) /\ ~IsNaN(y) /\ Key(x) <= Key(y)
T_gt(x, y) == ~IsNaN(x) /\ ~IsNaN(y) /\ Key(x) > Key(y)
T_ge(x, y) == ~IsNaN(x) /\ ~IsNaN(y) /\ Key(x) >= Key(y)

T_partial_cmp(x, y) ==
    IF IsNaN(x) \/ IsNaN(y) THEN "None"
    ELSE IF Key(x) < Key(y) THEN "Less"
    ELSE IF Key(x) > Key(y) THEN "Greater"
    ELSE "Equal"

\* Rounding to integers.  floor rounds down, ceil up, trunc towards zero,
\* round to the nearest integer with halves away from zero; fract is
\* self - self.trunc().
T_floor(x) == IF IsFin(x) THEN Fin((x.v \div Scale) * Scale) ELSE x
T_ceil(x) == IF IsFin(x) THEN Fin(-(((-x.v) \div Scale) * Scale)) ELSE x
T_trunc(x) == IF IsFin(x) THEN Fin(TDiv(x.v, Scale) * Scale) ELSE x
T_round(x) ==
    IF IsFin(x) THEN Fin(TDiv(2 * x.v + Sgn(x) * Scale, 2 * Scale) * Scale) ELSE x
T_fract(x) == T_sub(x, T_trunc(x))

\* Largest r >= 0 with r^2 <= n, and with r^3 <= n.
ISqrt(n) == CHOOSE r \in 0..(n + 1) : r * r <= n /\ (r + 1) * (r + 1) > n
ICbrt(n) == CHOOSE r \in 0..(n + 1) : r * r * r <= n /\ (r + 1) * (r + 1) * (r + 1) > n

T_sqrt(x) ==
    IF IsNaN(x) THEN NaN
    ELSE IF IsInf(x) THEN (IF x.v > 0 THEN PInf ELSE NaN)
    ELSE IF x.v < 0 THEN NaN
    ELSE Fin(ISqrt(x.v * Scale))

T_cbrt(x) ==
    IF IsFin(x) THEN Fin(Sgn(x) * ICbrt(Abs(x.v) * Scale * Scale)) ELSE x

RECURSIVE Pow(_, _)
Pow(base, e) == IF e = 0 THEN 1 ELSE base * Pow(base, e - 1)

\* Logarithm to an integer base, rounded down onto the grid: the largest
\* m with base^(m/Scale) <= v/Scale, i.e. base^m * Scale^Scale <= v^Scale.
RECURSIVE LogUp(_, _, _, _)
LogUp(base, lhs, rhs, m) ==
    IF lhs * base <= rhs THEN LogUp(base, lhs * base, rhs, m + 1) ELSE m
RECURSIVE LogDown(_, _, _, _)
LogDown(base, lhs, rhs, m) ==
    IF lhs <= rhs THEN m ELSE LogDown(base, lhs, rhs * base, m - 1)
ILog(base, v) ==
    LET lhs == Pow(Scale, Scale)
        rhs == Pow(v, Scale)
    IN  IF lhs <= rhs THEN LogUp(base, lhs, rhs, 0) ELSE LogDown(base, lhs, rhs, 0)

T_log(base, x) ==
    IF IsNaN(x) THEN NaN
    ELSE IF IsInf(x) THEN (IF x.v > 0 THEN PInf ELSE NaN)
    ELSE IF x.v < 0 THEN NaN
    ELSE IF x.v = 0 THEN NInf
    ELSE Fin(ILog(base, x.v))

T_log2(x) == T_log(2, x)
T_log10(x) == T_log(10, x)

\* ln(2) and ln(10) rounded towards zero onto the grid.
T_LN_2 == Fin((693147 * Scale) \div 1000000)
T_LN_10 == Fin((2302585 * Scale) \div 1000000)

\* sin and cos by their Taylor polynomials, x - x^3/6 and 1 - x^2/2 + x^4/24,
\* evaluated in the format; not finite arguments give NaN.
T_sin(x) ==
    IF ~IsFin(x) THEN NaN
    ELSE T_sub(x, T_div(T_mul(T_mul(x, x), x), N(6)))

T_cos(x) ==
    IF ~IsFin(x) THEN NaN
    ELSE LET x2 == T_mul(x, x)
         IN  T_add(T_sub(T_one, T_div(x2, N(2))), T_div(T_mul(x2, x2), N(24)))

T_sin_cos(x) == <<T_sin(x), T_cos(x)>>

\* ------------------------------------------------------------------------
\* DualNumber<T>(T, T): constructors.
new(real, dual) == [real |-> real, dual |-> dual]
from_real(real) == new(real, T_zero)
zero == new(T_zero, T_zero)
one == new(T_one, T_zero)

\* ------------------------------------------------------------------------
\* PartialEq<Self> and PartialOrd<Self>.
eq_both(self, rhs) == T_eq(self.real, rhs.real) /\ T_eq(self.dual, rhs.dual)
eq(self, rhs) == T_eq(self.real, rhs.real)
partial_cmp(self, rhs) == T_partial_cmp(self.real, rhs.real)
lt(self, rhs) == T_lt(self.real, rhs.real)
le(self, rhs) == T_le(self.real, rhs.real)
gt(self, rhs) == T_gt(self.real, rhs.real)
ge(self, rhs) == T_ge(self.real, rhs.real)

\* PartialEq<T> and PartialOrd<T>: comparison with a bare scalar.
eq_T(self, rhs) == T_eq(self.real, rhs)
partial_cmp_T(self, rhs) == T_partial_cmp(self.real, rhs)
lt_T(self, rhs) == T_lt(self.real, rhs)
le_T(self, rhs) == T_le(self.real, rhs)
gt_T(self, rhs) == T_gt(self.real, rhs)
ge_T(self, rhs) == T_ge(self.real, rhs)

\* ------------------------------------------------------------------------
\* Ring operators.
add(self, rhs) ==
    new(T_add(self.real, rhs.real),
        T_add(self.dual, rhs.dual))

mul_no_cross(self, rhs) ==
    new(T_mul(self.real, rhs.real),
        T_mul(self.real, rhs.dual))
mul(self, rhs) ==
    new(T_mul(self.real, rhs.real),
        T_add(T_mul(self.real, rhs.dual), T_mul(self.dual, rhs.real)))

div_no_square(self, rhs) ==
    new(T_div(self.real, rhs.real),
        T_div(T_sub(T_mul(self.dual, rhs.real), T_mul(self.real, rhs.dual)),
              rhs.real))
div(self, rhs) ==
    new(T_div(self.real, rhs.real),
        T_div(T_sub(T_mul(self.dual, rhs.real), T_mul(self.real, rhs.dual)),
              T_mul(rhs.real, rhs.real)))

\* Div<T>: division by a bare scalar.
div_T(self, rhs) == div(self, from_real(rhs))

\* ------------------------------------------------------------------------
\* Float for DualNumber<T>.
floor_keep_dual(self) == new(T_floor(self.real), self.dual)
floor(self) == new(T_floor(self.real), T_zero)
ceil(self) == new(T_ceil(self.real), T_zero)
round(self) == new(T_round(self.real), T_zero)
trunc(self) == new(T_trunc(self.real), T_zero)

fract(self) == new(T_fract(self.real), self.dual)

max_swapped(self, other) == IF T_gt(self.real, other.real) THEN other ELSE self
max(self, other) == IF T_gt(self.real, other.real) THEN self ELSE other

min(self, other) == IF T_lt(self.real, other.real) THEN other ELSE self

recip(self) == div(one, self)

log2(self) ==
    new(T_log10(self.real), T_div(self.dual, T_mul(self.real, T_LN_2)))

log10(self) ==
    new(T_log10(self.real), T_div(self.dual, T_mul(self.real, T_LN_10)))

sqrt(self) ==
    LET real == T_sqrt(self.real)
    IN  new(real, T_div(self.dual, T_mul(N(2), real)))

cbrt(self) ==
    LET real == T_cbrt(self.real)
    IN  new(real, T_div(self.dual, T_mul(N(3), real)))

sin(self) == new(T_sin(self.real), T_mul(self.dual, T_cos(self.real)))
cos(self) == new(T_cos(self.real), T_mul(T_neg(self.dual), T_sin(self.real)))

sin_cos_swapped(self) ==
    LET sc == T_sin_cos(self.real)
        s == sc[1]
        c == sc[2]
    IN  <<new(c, T_mul(T_neg(self.dual), s)), new(s, T_mul(self.dual, c))>>
sin_cos(self) ==
    LET sc == T_sin_cos(self.real)
        s == sc[1]
        c == sc[2]
        sn == new(s, T_mul(self.dual, c))
        cn == new(c, T_mul(T_neg(self.dual), s))
    IN  <<sn, cn>>

\* ------------------------------------------------------------------------
\* differentiate(x, f).  The closures f are built from the operators above.
FnSet == {"square", "cube", "recip", "sqrt_plus_one", "sin"}

Apply(fn, x) ==
    CASE fn = "square" -> mul(x, x)
      [] fn = "cube" -> mul(mul(x, x), x)
      [] fn = "recip" -> recip(x)
      [] fn = "sqrt_plus_one" -> add(sqrt(x), from_real(T_one))
      [] fn = "sin" -> sin(x)

differentiate(x, fn) == Apply(fn, new(x, T_one)).dual

\* ------------------------------------------------------------------------
\* State: the operands of one call, the call made and what it produced.
VARIABLES
    a,        \* self
    b,        \* rhs / other
    arg,      \* scalar operand (rhs: T, or the point x of differentiate)
    func,     \* the closure given to differentiate
    op,       \* the operation called, "none" before the call
    outcome,  \* "none", "returned" or "panicked"
    ret,      \* returned DualNumber
    ret2,     \* second element of a returned pair
    retT,     \* returned scalar
    retB,     \* returned bool
    retO      \* returned Option<Ordering>

vars == <<a, b, arg, func, op, outcome, ret, ret2, retT, retB, retO>>

RealIn == {Fin(n) : n \in -MaxIn..MaxIn} \cup {T_one, T_neg(T_one), N(2), NaN, PInf, NInf}
DualPartIn == {T_zero, T_one, T_neg(T_one), N(2), NaN}
DualIn == {new(r, d) : r \in RealIn, d \in DualPartIn}

Init ==
    /\ a \in DualIn
    /\ b = zero
    /\ arg = T_zero
    /\ func = "none"
    /\ op = "none"
    /\ outcome = "none"
    /\ ret = zero
    /\ ret2 = zero
    /\ retT = T_zero
    /\ retB = FALSE
    /\ retO = "None"

\* No call has been made yet.
Idle == op = "none"

\* One call on self = a: records the operands and what the call produced.
Call(name, y, x, f, how, r, r2, t, bl, o) ==
    /\ op' = name
    /\ a' = a
    /\ b' = y
    /\ arg' = x
    /\ func' = f
    /\ outcome' = how
    /\ ret' = r
    /\ ret2' = r2
    /\ retT' = t
    /\ retB' = bl
    /\ retO' = o

Unary(name, r) == Call(name, b, arg, func, "returned", r, ret2, retT, retB, retO)
Binary(name, y, r) == Call(name, y, arg, func, "returned", r, ret2, retT, retB, retO)
Compare(name, y, bl) == Call(name, y, arg, func, "returned", ret, ret2, retT, bl, retO)
CompareT(name, x, bl) == Call(name, b, x, func, "returned", ret, ret2, retT, bl, retO)

Differentiate ==
    /\ Idle
    /\ \E x \in RealIn, f \in FnSet :
           Call("differentiate", b, x, f, "returned", ret, ret2, differentiate(x, f), retB, retO)

OpEq ==
    /\ Idle
    /\ \E y \in DualIn : Compare("eq", y, eq(a, y))

OpLt ==
    /\ Idle
    /\ \E y \in DualIn : Compare("lt", y, lt(a, y))

OpLe ==
    /\ Idle
    /\ \E y \in DualIn : Compare("le", y, le(a, y))

OpGt ==
    /\ Idle
    /\ \E y \in DualIn : Compare("gt", y, gt(a, y))

OpGe ==
    /\ Idle
    /\ \E y \in DualIn : Compare("ge", y, ge(a, y))

OpPartialCmp ==
    /\ Idle
    /\ \E y \in DualIn :
           Call("partial_cmp", y, arg, func, "returned", ret, ret2, retT, retB, partial_cmp(a, y))

OpEqT ==
    /\ Idle
    /\ \E x \in RealIn : CompareT("eq_T", x, eq_T(a, x))

OpLtT ==
    /\ Idle
    /\ \E x \in RealIn : CompareT("lt_T", x, lt_T(a, x))

OpLeT ==
    /\ Idle
    /\ \E x \in RealIn : CompareT("le_T", x, le_T(a, x))

OpGtT ==
    /\ Idle
    /\ \E x \in RealIn : CompareT("gt_T", x, gt_T(a, x))

OpGeT ==
    /\ Idle
    /\ \E x \in RealIn : CompareT("ge_T", x, ge_T(a, x))

OpPartialCmpT ==
    /\ Idle
    /\ \E x \in RealIn :
           Call("partial_cmp_T", b, x, func, "returned", ret, ret2, retT, retB, partial_cmp_T(a, x))

OpMul ==
    /\ Idle
    /\ \E y \in DualIn : Binary("mul", y, mul(a, y))

OpDiv ==
    /\ Idle
    /\ \E y \in DualIn : Binary("div", y, div(a, y))

OpDivT ==
    /\ Idle
    /\ \E x \in RealIn :
           Call("div_T", b, x, func, "returned", div_T(a, x), ret2, retT, retB, retO)

\* A remainder that returns self.real - trunc(self.real / rhs.real) * rhs.real.
RemReturns ==
    /\ Idle
    /\ \E y \in DualIn :
           Binary("rem", y,
                  new(T_sub(a.real, T_mul(T_trunc(T_div(a.real, y.real)), y.real)), a.dual))

\* rem is unimplemented!(): the call panics and nothing is returned.
OpRem ==
    /\ Idle
    /\ \E y \in DualIn :
           Call("rem", y, arg, func, "panicked", ret, ret2, retT, retB, retO)

OpFloor ==
    /\ Idle
    /\ Unary("floor", floor(a))

OpCeil ==
    /\ Idle
    /\ Unary("ceil", ceil(a))

OpRound ==
    /\ Idle
    /\ Unary("round", round(a))

OpTrunc ==
    /\ Idle
    /\ Unary("trunc", trunc(a))

OpFract ==
    /\ Idle
    /\ Unary("fract", fract(a))

OpMax ==
    /\ Idle
    /\ \E y \in DualIn : Binary("max", y, max(a, y))

OpMin ==
    /\ Idle
    /\ \E y \in DualIn : Binary("min", y, min(a, y))

OpRecip ==
    /\ Idle
    /\ Unary("recip", recip(a))

OpLog2 ==
    /\ Idle
    /\ Unary("log2", log2(a))

OpLog10 ==
    /\ Idle
    /\ Unary("log10", log10(a))

OpSqrt ==
    /\ Idle
    /\ Unary("sqrt", sqrt(a))

OpCbrt ==
    /\ Idle
    /\ Unary("cbrt", cbrt(a))

OpSin ==
    /\ Idle
    /\ Unary("sin", sin(a))

OpCos ==
    /\ Idle
    /\ Unary("cos", cos(a))

OpSinCos ==
    /\ Idle
    /\ Call("sin_cos", b, arg, func, "returned", sin_cos(a)[1], sin_cos(a)[2], retT, retB, retO)

Next ==
    \/ Differentiate
    \/ OpEq \/ OpLt \/ OpLe \/ OpGt \/ OpGe \/ OpPartialCmp
    \/ OpEqT \/ OpLtT \/ OpLeT \/ OpGtT \/ OpGeT \/ OpPartialCmpT
    \/ OpMul \/ OpDiv \/ OpDivT \/ OpRem
    \/ OpFloor \/ OpCeil \/ OpRound \/ OpTrunc \/ OpFract
    \/ OpMax \/ OpMin \/ OpRecip
    \/ OpLog2 \/ OpLog10 \/ OpSqrt \/ OpCbrt
    \/ OpSin \/ OpCos \/ OpSinCos

Spec == Init /\ [][Next]_vars

TypeOK ==
    /\ op \in {"none", "differentiate", "eq", "lt", "le", "gt", "ge", "partial_cmp",
               "eq_T", "lt_T", "le_T", "gt_T", "ge_T", "partial_cmp_T",
               "mul", "div", "div_T", "rem", "floor", "ceil", "round", "trunc",
               "fract", "max", "min", "recip", "log2", "log10", "sqrt", "cbrt",
               "sin", "cos", "sin_cos"}
    /\ outcome \in {"none", "returned", "panicked"}
    /\ (op = "none") = (outcome = "none")

\* ------------------------------------------------------------------------
\* Properties.

\* C1: differentiate(x, f) returns the dual component of f(new(x, 1)); for
\* f = |x| x*x the result is 2*x for every x, and it is 4 at x = 2.
C1_DifferentiateSeed ==
    /\ op = "differentiate" =>
           /\ retT = Apply(func, new(arg, T_one)).dual
           /\ (func = "square" => retT = T_mul(N(2), arg))
    /\ differentiate(N(2), "square") = N(4)

C1_Witness ==
    /\ op = "differentiate"
    /\ func = "square"
    /\ arg = N(2)
    /\ retT = N(4)

\* C2: min(a, b) returns the operand whose real part is smaller, with its
\* own dual part: when a.real < b.real, min(a, b) = a and min(b, a) = a.
C2_MinSelectsSmaller ==
    (op = "min" /\ T_lt(a.real, b.real)) =>
        /\ ret = a
        /\ min(b, a) = a

\* C3: max(a, b) returns the operand whose real part is larger, with its own
\* dual part: when a.real < b.real, max(a, b) = b and max(b, a) = b; and
\* max(new(3, 10), new(7, 20)) = new(7, 20).
C3_MaxSelectsLarger ==
    /\ (op = "max" /\ T_lt(a.real, b.real)) =>
           /\ ret = b
           /\ max(b, a) = b
    /\ (op = "max" /\ T_lt(b.real, a.real)) => ret = a
    /\ max(new(N(3), N(10)), new(N(7), N(20))) = new(N(7), N(20))

C3_Witness ==
    /\ op = "max"
    /\ T_lt(a.real, b.real)
    /\ a.dual = N(2)
    /\ b.dual = T_neg(T_one)
    /\ ret = b

\* C4: ==, <, <=, >, >= and partial_cmp on (a, b) and on (a, s) give the
\* result of the same comparison on the real parts, whatever the dual parts
\* are; new(5, 1) == new(5, 99) and new(5, 1) < new(6, 0).
RealOnly(res, cmp(_, _), tcmp(_, _)) ==
    /\ res = tcmp(a.real, b.real)
    /\ \A d1 \in DualPartIn, d2 \in DualPartIn :
           cmp(new(a.real, d1), new(b.real, d2)) = res

RealOnlyT(res, cmp(_, _), tcmp(_, _)) ==
    /\ res = tcmp(a.real, arg)
    /\ \A d \in DualPartIn : cmp(new(a.real, d), arg) = res

C4_CompareRealOnly ==
    /\ op = "eq" => RealOnly(retB, eq, T_eq)
    /\ op = "lt" => RealOnly(retB, lt, T_lt)
    /\ op = "le" => RealOnly(retB, le, T_le)
    /\ op = "gt" => RealOnly(retB, gt, T_gt)
    /\ op = "ge" => RealOnly(retB, ge, T_ge)
    /\ op = "partial_cmp" => RealOnly(retO, partial_cmp, T_partial_cmp)
    /\ op = "eq_T" => RealOnlyT(retB, eq_T, T_eq)
    /\ op = "lt_T" => RealOnlyT(retB, lt_T, T_lt)
    /\ op = "le_T" => RealOnlyT(retB, le_T, T_le)
    /\ op = "gt_T" => RealOnlyT(retB, gt_T, T_gt)
    /\ op = "ge_T" => RealOnlyT(retB, ge_T, T_ge)
    /\ op = "partial_cmp_T" => RealOnlyT(retO, partial_cmp_T, T_partial_cmp)
    /\ eq(new(N(5), N(1)), new(N(5), N(99)))
    /\ lt(new(N(5), N(1)), new(N(6), N(0)))

C4_Witness ==
    /\ op = "eq"
    /\ a.real = T_one
    /\ b.real = T_one
    /\ a.dual = T_one
    /\ b.dual = N(2)
    /\ retB = TRUE

\* C5: rem panics for every pair of operands and never returns a value.
C5_RemPanics ==
    op = "rem" =>
        /\ outcome = "panicked"
        /\ ret = zero

C5_Witness ==
    /\ op = "rem"
    /\ outcome = "panicked"
    /\ a.real = N(2)
    /\ b.real = T_one

\* C6: floor, ceil, round and trunc yield the scalar function of the real
\* part and a dual part of exactly zero, whatever the input's dual part;
\* fract yields the fractional part and the input's dual part unchanged.
C6_RoundingDualZero ==
    /\ op = "floor" => ret = new(T_floor(a.real), T_zero)
    /\ op = "ceil" => ret = new(T_ceil(a.real), T_zero)
    /\ op = "round" => ret = new(T_round(a.real), T_zero)
    /\ op = "trunc" => ret = new(T_trunc(a.real), T_zero)
    /\ op = "fract" => ret = new(T_fract(a.real), a.dual)

C6_Witness ==
    /\ op = "floor"
    /\ a = new(Fin(-1), T_one)
    /\ ret = new(T_neg(T_one), T_zero)

\* C7: sin_cos(x) returns the pair (sin(x), cos(x)), real and dual parts
\* alike, the scalar sin_cos being the pair of the scalar sin and cos.
C7_SinCosPair ==
    op = "sin_cos" =>
        /\ ret = sin(a)
        /\ ret2 = cos(a)

C7_Witness ==
    /\ op = "sin_cos"
    /\ a = new(T_one, T_one)
    /\ ret = new(T_sin(T_one), T_cos(T_one))
    /\ ret2 = new(T_cos(T_one), T_neg(T_sin(T_one)))
    /\ ret # ret2

C9_LogRealPart ==
    /\ op = "log2" =>
           ret = new(T_log2(a.real), T_div(a.dual, T_mul(a.real, T_LN_2)))
    /\ op = "log10" =>
           ret = new(T_log10(a.real), T_div(a.dual, T_mul(a.real, T_LN_10)))

\* C10: cbrt(x) has real part cbrt(x.real) and dual part
\* x.dual / (3 * cbrt(x.real)^2); sqrt(x) has dual part x.dual / (2 * sqrt(x.real)).
C10_RootDualPart ==
    /\ op = "cbrt" =>
           ret = new(T_cbrt(a.real),
                     T_div(a.dual, T_mul(N(3), T_mul(T_cbrt(a.real), T_cbrt(a.real)))))
    /\ op = "sqrt" =>
           ret = new(T_sqrt(a.real), T_div(a.dual, T_mul(N(2), T_sqrt(a.real))))

====
